---- MODULE Spec2Model ----
(***************************************************************************)
(* A model of segment_history.py: the header assembly, the effort reducer, *)
(* the row formatter and the sheet metadata mapper.                        *)
(*                                                                         *)
(* Text is modelled as a sequence of one-character strings, so that        *)
(* stripping, splitting, joining and lower-casing are computed and not     *)
(* assumed.  A fixed literal of the program that no operation looks into   *)
(* (a URL prefix) is a single element of such a sequence.                  *)
(***************************************************************************)
EXTENDS Integers, Sequences, FiniteSets, TLC

\* ------------------------------------------------------------------ bounds
\* Longest link handed to _segment_id_from_link.
MaxLinkLen == 5
\* Largest elapsed time handed to _format_elapsed_time alone, in seconds.
MaxElapsedSeconds == 90
\* Most words of a pasted command.
MaxTokens == 3
\* Most effort records of one payload.
MaxEfforts == 3
\* Longest pasted command text.
MaxCommandLen == 4
\* Most metadata rows of the sheet.
MaxRows == 4
\* Most calls of load_or_prompt_navn on one cache file.
MaxCalls == 3

VARIABLES
    pc,            \* position of the call under study
    link,          \* _segment_id_from_link: its argument
    link_id,       \* _segment_id_from_link: its return value
    seconds,       \* _format_elapsed_time: its argument
    elapsed_text,  \* _format_elapsed_time: its outcome
    cookie_header, \* _build_headers: the explicit cookie argument
    csrf_token,    \* _build_headers: the explicit CSRF token argument
    environ,       \* _build_headers: os.environ, the three override variables
    curl_headers,  \* _build_headers: what _load_curl_headers() returned
    http_headers,  \* _build_headers: its outcome
    curl_command,  \* parse_curl_headers: its argument, the pasted text
    tokens,        \* parse_curl_headers: the words shlex.split() returned
    idx,           \* parse_curl_headers: the index of the word being read
    headers,       \* parse_curl_headers: the mapping built so far
    efforts,       \* efforts_to_sheet_rows: the effort records passed
    segment_name_map, \* efforts_to_sheet_rows: segment id -> display name
    navn_value,    \* efforts_to_sheet_rows: the athlete name passed
    best_by_year,  \* efforts_to_sheet_rows: key -> the retained record
    order,         \* efforts_to_sheet_rows: the keys in discovery order
    rows,          \* efforts_to_sheet_rows: the rows built so far
    raised,        \* efforts_to_sheet_rows: the exception that ended it, if any
    sheet_rows,    \* extract_segment_ids: the Segment cell of each metadata row
    segment_ids,   \* extract_segment_ids: the ids collected so far
    seen,          \* extract_segment_ids: the set of ids collected so far
    cache_file,    \* load_or_prompt_navn: the cache file's content, None without one
    calls,         \* load_or_prompt_navn: the calls made so far
    suggested_names, \* load_or_prompt_navn: the suggestions of the last call
    navn_input,    \* load_or_prompt_navn: what input_func returned, None if not asked
    navn_result    \* load_or_prompt_navn: the outcome of the last call, None before it

linkVars == <<link, link_id>>
elapsedVars == <<seconds, elapsed_text>>
buildVars == <<cookie_header, csrf_token, environ, curl_headers, http_headers>>
curlVars == <<curl_command, tokens, idx, headers>>
rowArgs == <<efforts, segment_name_map, navn_value>>
rowVars == <<rowArgs, best_by_year, order, rows, raised>>
sheetVars == <<sheet_rows, segment_ids, seen>>
navnVars == <<cache_file, calls, suggested_names, navn_input, navn_result>>
vars == <<pc, linkVars, elapsedVars, buildVars, curlVars, rowVars, sheetVars, navnVars>>

\* ------------------------------------------------------------ Python values
\* A value read from a JSON payload or passed as an argument is None, a number
\* or a string.  A number is held as a count of quarters (q = 4 * value), which
\* are exact in binary floating point, so that a tie of round() is a real tie.
None == [t |-> "none"]
Num(q) == [t |-> "num", q |-> q]
Str(s) == [t |-> "str", s |-> s]
Whole(n) == Num(4 * n)

\* The outcome of a call: a value, or the exception it raised.
Ok(v) == [raised |-> FALSE, val |-> v]
Raise(e) == [raised |-> TRUE, exc |-> e]

\* Python truthiness: None, zero and the empty string are false.
Truthy(v) ==
    CASE v.t = "none" -> FALSE
      [] v.t = "num" -> v.q # 0
      [] v.t = "str" -> v.s # <<>>
      [] OTHER -> TRUE

\* a or b
PyOr(a, b) == IF Truthy(a) THEN a ELSE b

\* ------------------------------------------------------------- text helpers
Whitespace == {" ", "\t", "\n", "\r"}
Digits == {"0", "1", "2", "3", "4", "5", "6", "7", "8", "9"}

\* All texts of at most n characters over the alphabet.
TextsUpTo(alphabet, n) == UNION {[1..k -> alphabet] : k \in 0..n}

\* str.lstrip(): leading whitespace removed.
RECURSIVE LStrip(_)
LStrip(s) ==
    IF s # <<>> /\ Head(s) \in Whitespace THEN LStrip(Tail(s)) ELSE s

\* str.rstrip(chars): trailing characters of the set removed.
RECURSIVE RStripChars(_, _)
RStripChars(s, chars) ==
    IF s # <<>> /\ s[Len(s)] \in chars
    THEN RStripChars(SubSeq(s, 1, Len(s) - 1), chars)
    ELSE s

\* str.strip(): whitespace removed on both sides.
Strip(s) == RStripChars(LStrip(s), Whitespace)

\* The index of the first occurrence of ch in s, 0 when there is none.
FirstIndexOf(s, ch) ==
    IF \E i \in 1..Len(s) : s[i] = ch
    THEN CHOOSE i \in 1..Len(s) : s[i] = ch /\ \A j \in 1..(i - 1) : s[j] # ch
    ELSE 0

\* The index of the last occurrence of ch in s, 0 when there is none.
LastIndexOf(s, ch) ==
    IF \E i \in 1..Len(s) : s[i] = ch
    THEN CHOOSE i \in 1..Len(s) : s[i] = ch /\ \A j \in (i + 1)..Len(s) : s[j] # ch
    ELSE 0

\* s.split(ch, 1)[0]: the text before the first ch (all of s without one).
BeforeFirst(s, ch) ==
    IF FirstIndexOf(s, ch) = 0 THEN s ELSE SubSeq(s, 1, FirstIndexOf(s, ch) - 1)

\* s.split(ch, 1)[1]: the text after the first ch, which s must hold.
AfterFirst(s, ch) == SubSeq(s, FirstIndexOf(s, ch) + 1, Len(s))

\* s.split(ch)[-1]: the text after the last ch (all of s without one).
AfterLast(s, ch) == SubSeq(s, LastIndexOf(s, ch) + 1, Len(s))

\* s.startswith(prefix)
StartsWith(s, prefix) ==
    Len(s) >= Len(prefix) /\ SubSeq(s, 1, Len(prefix)) = prefix

UpperLetters ==
    <<"A", "B", "C", "D", "E", "F", "G", "H", "I", "J", "K", "L", "M",
      "N", "O", "P", "Q", "R", "S", "T", "U", "V", "W", "X", "Y", "Z">>
LowerLetters ==
    <<"a", "b", "c", "d", "e", "f", "g", "h", "i", "j", "k", "l", "m",
      "n", "o", "p", "q", "r", "s", "t", "u", "v", "w", "x", "y", "z">>

\* str.lower()
Lower(s) ==
    [i \in 1..Len(s) |->
        IF \E n \in 1..Len(UpperLetters) : UpperLetters[n] = s[i]
        THEN LowerLetters[CHOOSE n \in 1..Len(UpperLetters) : UpperLetters[n] = s[i]]
        ELSE s[i]]

\* d[k] = v
DictSet(d, k, v) == [x \in DOMAIN d \cup {k} |-> IF x = k THEN v ELSE d[x]]

\* str.isdigit(): non-empty and decimal digits only.
IsDigit(s) == s # <<>> /\ \A i \in 1..Len(s) : s[i] \in Digits

\* -------------------------------------------- the calls not under study
\* Each specification studies one function; the others' variables rest.
IdleLink == link = <<>> /\ link_id = <<>>

IdleElapsed == seconds = None /\ elapsed_text = Ok(<<>>)

IdleCurl == curl_command = <<>> /\ tokens = <<>> /\ idx = 0 /\ headers = <<>>

IdleRows ==
    /\ efforts = <<>>
    /\ segment_name_map = None
    /\ navn_value = None
    /\ best_by_year = <<>>
    /\ order = <<>>
    /\ rows = <<>>
    /\ raised = ""

IdleSheet == sheet_rows = <<>> /\ segment_ids = <<>> /\ seen = {}

IdleNavn ==
    /\ cache_file = None
    /\ calls = 0
    /\ suggested_names = None
    /\ navn_input = None
    /\ navn_result = None

IdleBuild ==
    /\ cookie_header = None
    /\ csrf_token = None
    /\ environ = <<>>
    /\ curl_headers = <<>>
    /\ http_headers = Ok(<<>>)

\* --------------------------------------------------------- number to text
DigitText == <<"0", "1", "2", "3", "4", "5", "6", "7", "8", "9">>

\* str(n) of a non-negative int.
RECURSIVE NatToText(_)
NatToText(n) ==
    IF n < 10 THEN <<DigitText[n + 1]>>
    ELSE NatToText(n \div 10) \o <<DigitText[(n % 10) + 1]>>

\* str(n) of an int.
IntToText(n) == IF n < 0 THEN <<"-">> \o NatToText(-n) ELSE NatToText(n)

\* format(n, "02d"): at least two characters, zero-padded, the sign counted.
Pad2(n) == IF n >= 0 /\ n < 10 THEN <<"0">> \o IntToText(n) ELSE IntToText(n)

\* str(x) of a number: an int-valued one prints as the int (the payload's
\* ids and times are JSON integers), another with its decimals.
NumToText(q) ==
    IF q % 4 = 0 THEN IntToText(q \div 4)
    ELSE LET whole == IF q < 0 THEN -((-q) \div 4) ELSE q \div 4
             frac == (IF q < 0 THEN -q ELSE q) % 4
             sign == IF q < 0 /\ whole = 0 THEN <<"-">> ELSE <<>>
         IN sign \o IntToText(whole) \o <<".">>
            \o (CASE frac = 1 -> <<"2", "5">> [] frac = 2 -> <<"5">> [] OTHER -> <<"7", "5">>)

\* str(v)
PyStr(v) ==
    CASE v.t = "str" -> v.s
      [] v.t = "num" -> NumToText(v.q)
      [] OTHER -> <<"N", "o", "n", "e">>

\* ----------------------------------------------------------- _build_headers
DEFAULT_USER_AGENT ==
    <<"Mozilla/5.0 (Macintosh; Intel Mac OS X 10_15_7) AppleWebKit/537.36 (KHTML, like Gecko) Chrome/142.0.0.0 Safari/537.36">>

SEGMENT_ID == <<"4", "5", "8", "0", "1", "9", "0">>

\* The keys parse_curl_headers stores the three headers under.
CookieKey == <<"c", "o", "o", "k", "i", "e">>
CsrfKey == <<"x", "-", "c", "s", "r", "f", "-", "t", "o", "k", "e", "n">>
UserAgentKey == <<"u", "s", "e", "r", "-", "a", "g", "e", "n", "t">>

\* d.get(k) of a dict of texts: None for a key it does not hold.
DictGet(d, k) == IF k \in DOMAIN d THEN Str(d[k]) ELSE None

\* _header_value with the environment consulted before the explicit argument.
HeaderValueEnvFirst(explicit, env_var, header_key, env, curl) ==
    LET env_value == Strip(PyOr(env[env_var], Str(<<>>)).s) IN
    IF env_value # <<>> THEN env_value
    ELSE IF Truthy(explicit) /\ Strip(explicit.s) # <<>> THEN Strip(explicit.s)
    ELSE Strip(PyOr(DictGet(curl, header_key), Str(<<>>)).s)

\* _header_value(explicit, env_var, header_key): the explicit argument, else
\* the environment variable, else the pasted command's header; "" for none.
HeaderValue(explicit, env_var, header_key, env, curl) ==
    IF Truthy(explicit) /\ Strip(explicit.s) # <<>> THEN Strip(explicit.s)
    ELSE LET env_value == Strip(PyOr(env[env_var], Str(<<>>)).s) IN
         IF env_value # <<>> THEN env_value
         ELSE Strip(PyOr(DictGet(curl, header_key), Str(<<>>)).s)

\* _build_headers without its check of the CSRF token.
BuildHeadersNoCsrfCheck(cookie, csrf, segment_id, env, curl) ==
    LET header_cookies == HeaderValue(cookie, "STRAVA_COOKIE_HEADER", CookieKey, env, curl)
        header_csrf == HeaderValue(csrf, "STRAVA_CSRF_TOKEN", CsrfKey, env, curl)
    IN IF header_cookies = <<>> THEN Raise("A Cookie header is required")
       ELSE Ok([Accept |-> <<"application/javascript">>,
                Cookie |-> header_cookies,
                Referer |-> <<"https://www.strava.com/segments/">> \o segment_id,
                UserAgent |-> DEFAULT_USER_AGENT,
                XCSRFToken |-> header_csrf,
                XRequestedWith |-> <<"XMLHttpRequest">>])

\* _build_headers(cookie_header, csrf_token, segment_id): the request's
\* header set, or ValueError for a missing cookie or CSRF token.
BuildHeaders(cookie, csrf, segment_id, env, curl) ==
    LET header_cookies == HeaderValue(cookie, "STRAVA_COOKIE_HEADER", CookieKey, env, curl)
        header_csrf == HeaderValue(csrf, "STRAVA_CSRF_TOKEN", CsrfKey, env, curl)
        user_agent ==
            PyOr(PyOr(Str(Strip(PyOr(env["STRAVA_USER_AGENT"], Str(<<>>)).s)),
                      DictGet(curl, UserAgentKey)),
                 Str(DEFAULT_USER_AGENT)).s
    IN IF header_cookies = <<>> THEN Raise("A Cookie header is required")
       ELSE IF header_csrf = <<>> THEN Raise("A CSRF token is required")
       ELSE Ok([Accept |-> <<"application/javascript">>,
                Cookie |-> header_cookies,
                Referer |-> <<"https://www.strava.com/segments/">> \o segment_id,
                UserAgent |-> user_agent,
                XCSRFToken |-> header_csrf,
                XRequestedWith |-> <<"XMLHttpRequest">>])

EnvVars == {"STRAVA_COOKIE_HEADER", "STRAVA_CSRF_TOKEN", "STRAVA_USER_AGENT"}

\* What a caller passes: nothing, an empty or blank text, a text, a padded text.
ExplicitTexts == {None, Str(<<>>), Str(<<" ">>), Str(<<"x">>), Str(<<" ", "x", " ">>)}
\* What the environment holds: unset, empty, blank, a text, a padded text.
EnvTexts == {None, Str(<<>>), Str(<<" ">>), Str(<<"e">>), Str(<<"e", " ">>)}
\* What parse_curl_headers stores: a stripped text, which may be empty.
CurlTexts == {<<>>, <<"c">>}
CurlHeaderMaps ==
    UNION {[keys -> CurlTexts] : keys \in SUBSET {CookieKey, CsrfKey, UserAgentKey}}

InitBuild ==
    /\ IdleSheet
    /\ IdleNavn
    /\ pc = "start"
    /\ cookie_header \in ExplicitTexts
    /\ csrf_token \in ExplicitTexts
    /\ environ \in [EnvVars -> EnvTexts]
    /\ curl_headers \in CurlHeaderMaps
    /\ http_headers = Ok(<<>>)
    /\ IdleLink
    /\ IdleElapsed
    /\ IdleCurl
    /\ IdleRows

\* One call of _build_headers(cookie_header, csrf_token).
BuildHeadersCall ==
    /\ pc = "start"
    /\ http_headers' = BuildHeaders(cookie_header, csrf_token, SEGMENT_ID, environ, curl_headers)
    /\ pc' = IF http_headers'.raised THEN "raised" ELSE "done"
    /\ UNCHANGED <<cookie_header, csrf_token, environ, curl_headers, linkVars, elapsedVars, curlVars, rowVars,
                   sheetVars, navnVars>>

NextBuild == BuildHeadersCall

SpecBuild == InitBuild /\ [][NextBuild]_vars

\* ------------------------------------------------------ parse_curl_headers
FlagH == <<"-", "H">>
FlagHeader == <<"-", "-", "h", "e", "a", "d", "e", "r">>
FlagHeaderEq == FlagHeader \o <<"=">>
FlagB == <<"-", "b">>
FlagCookie == <<"-", "-", "c", "o", "o", "k", "i", "e">>
FlagCookieEq == FlagCookie \o <<"=">>

\* _store(raw_value): the mapping after a `Name: Value` text is stored.
Store(hdrs, raw_value) ==
    IF raw_value = <<>> \/ FirstIndexOf(raw_value, ":") = 0 THEN hdrs
    ELSE LET name == BeforeFirst(raw_value, ":")
             value == AfterFirst(raw_value, ":")
             header_name == Lower(Strip(name))
         IN IF header_name = <<>> THEN hdrs
            ELSE DictSet(hdrs, header_name, Strip(value))

\* The word after the flag at index i (0-based), "" when the flag is last.
FlagArgument(toks, i) == IF i + 1 < Len(toks) THEN toks[i + 2] ELSE <<>>

\* The header value the word at index i carries, with the joined short form
\* read one character too far.
HeaderValueOfSkipsOne(toks, i) ==
    LET token == toks[i + 1]
        lowered == Lower(token)
    IN IF token = FlagH \/ lowered = FlagHeader THEN FlagArgument(toks, i)
       ELSE IF StartsWith(lowered, FlagHeaderEq) THEN AfterFirst(token, "=")
       ELSE IF StartsWith(token, FlagH) /\ Len(token) > 2 THEN SubSeq(token, 4, Len(token))
       ELSE <<>>

\* The header value the word at index i (0-based) carries, "" when none.
HeaderValueOf(toks, i) ==
    LET token == toks[i + 1]
        lowered == Lower(token)
    IN IF token = FlagH \/ lowered = FlagHeader THEN FlagArgument(toks, i)
       ELSE IF StartsWith(lowered, FlagHeaderEq) THEN AfterFirst(token, "=")
       ELSE IF StartsWith(token, FlagH) /\ Len(token) > 2 THEN SubSeq(token, 3, Len(token))
       ELSE <<>>

\* The cookie value the word at index i (0-based) carries, "" when none.
CookieValueOf(toks, i) ==
    LET token == toks[i + 1]
        lowered == Lower(token)
    IN IF token = FlagH \/ lowered = FlagHeader \/ StartsWith(lowered, FlagHeaderEq)
          \/ (StartsWith(token, FlagH) /\ Len(token) > 2) THEN <<>>
       ELSE IF token = FlagB \/ lowered = FlagCookie THEN FlagArgument(toks, i)
       ELSE IF StartsWith(lowered, FlagCookieEq) THEN AfterFirst(token, "=")
       ELSE IF StartsWith(token, FlagB) /\ Len(token) > 2 THEN SubSeq(token, 3, Len(token))
       ELSE <<>>

\* Whether the word at index i (0-based) is a flag that takes the next word.
TakesNextWord(toks, i) ==
    LET token == toks[i + 1]
        lowered == Lower(token)
    IN token = FlagH \/ lowered = FlagHeader \/ token = FlagB \/ lowered = FlagCookie

\* The mapping after the values of one word are stored, a cookie value that
\* begins with "@" stored like any other.
StoreValuesKeepsFile(hdrs, header_value, cookie_value) ==
    LET stored == IF header_value # <<>> THEN Store(hdrs, Strip(header_value)) ELSE hdrs
        cookie_text == Strip(cookie_value)
    IN IF cookie_value # <<>> /\ cookie_text # <<>>
       THEN DictSet(stored, CookieKey, cookie_text)
       ELSE stored

\* The mapping after the header and cookie values of one word are stored.
StoreValues(hdrs, header_value, cookie_value) ==
    LET stored == IF header_value # <<>> THEN Store(hdrs, Strip(header_value)) ELSE hdrs
        cookie_text == Strip(cookie_value)
    IN IF cookie_value # <<>> /\ cookie_text # <<>> /\ cookie_text[1] # "@"
       THEN DictSet(stored, CookieKey, cookie_text)
       ELSE stored

\* The `Name: Value` texts and cookie texts a pasted command carries.
HeaderArguments ==
    {<<"X", ":", "a">>, <<"X", ":">>, <<" ", "x", " ", ":", "b">>, <<":", "a">>, <<"X">>}
CookieArguments == {<<"k">>, <<"@", "f">>}
Words ==
    {FlagH, FlagHeader, <<"-", "-", "H", "e", "a", "d", "e", "r">>, FlagB, FlagCookie,
     <<"c", "u", "r", "l">>}
    \cup HeaderArguments \cup CookieArguments
    \cup {FlagH \o v : v \in HeaderArguments}
    \cup {FlagHeaderEq \o v : v \in HeaderArguments}
    \cup {FlagB \o c : c \in CookieArguments}
    \cup {FlagCookieEq \o c : c \in CookieArguments}

InitCurl ==
    /\ IdleSheet
    /\ IdleNavn
    /\ pc = "loop"
    /\ curl_command = <<>>
    /\ tokens \in TextsUpTo(Words, MaxTokens)
    /\ idx = 0
    /\ headers = <<>>
    /\ IdleLink
    /\ IdleElapsed
    /\ IdleBuild
    /\ IdleRows

\* One turn of parse_curl_headers' loop over the words.
ParseStep ==
    /\ pc = "loop"
    /\ idx < Len(tokens)
    /\ headers' = StoreValues(headers, HeaderValueOf(tokens, idx), CookieValueOf(tokens, idx))
    /\ idx' = IF TakesNextWord(tokens, idx) THEN idx + 2 ELSE idx + 1
    /\ UNCHANGED <<pc, curl_command, tokens, linkVars, elapsedVars, buildVars, rowVars,
                   sheetVars, navnVars>>

\* The loop's end: parse_curl_headers returns the mapping.
ParseReturn ==
    /\ pc = "loop"
    /\ idx >= Len(tokens)
    /\ pc' = "done"
    /\ UNCHANGED <<curlVars, linkVars, elapsedVars, buildVars, rowVars,
                   sheetVars, navnVars>>

NextCurl == ParseStep \/ ParseReturn

SpecCurl == InitCurl /\ [][NextCurl]_vars

\* Command lines made of header and cookie flags only, in every spelling.
FlagHeaderTexts == {<<"X", ":", "a">>, <<" ", "x", " ", ":", "b">>}
FlagCookieTexts == {<<"k">>, <<"@", "f">>}
FlagWords ==
    {FlagH, FlagHeader, FlagB, FlagCookie}
    \cup FlagHeaderTexts \cup FlagCookieTexts
    \cup {FlagH \o v : v \in FlagHeaderTexts}
    \cup {FlagHeaderEq \o v : v \in FlagHeaderTexts}
    \cup {FlagCookieEq \o c : c \in FlagCookieTexts}

InitFlags ==
    /\ IdleSheet
    /\ IdleNavn
    /\ pc = "loop"
    /\ curl_command = <<>>
    /\ tokens \in TextsUpTo(FlagWords, MaxTokens)
    /\ idx = 0
    /\ headers = <<>>
    /\ IdleLink
    /\ IdleElapsed
    /\ IdleBuild
    /\ IdleRows

SpecFlags == InitFlags /\ [][NextCurl]_vars

\* The mapping parse_curl_headers returns for the words from index i (0-based)
\* on, starting from the mapping hdrs: the loop run to its end.
RECURSIVE ParseFrom(_, _, _)
ParseFrom(toks, i, hdrs) ==
    IF i >= Len(toks) THEN hdrs
    ELSE ParseFrom(toks,
                   IF TakesNextWord(toks, i) THEN i + 2 ELSE i + 1,
                   StoreValues(hdrs, HeaderValueOf(toks, i), CookieValueOf(toks, i)))

\* ------------------------------------- parse_curl_headers: the pasted text
\* str.replace(old, new): every occurrence of old, leftmost first, none
\* overlapping.
RECURSIVE Replace(_, _, _)
Replace(s, old, new) ==
    IF s = <<>> THEN <<>>
    ELSE IF StartsWith(s, old)
    THEN new \o Replace(SubSeq(s, Len(old) + 1, Len(s)), old, new)
    ELSE <<Head(s)>> \o Replace(Tail(s), old, new)

\* The length of the whitespace run s begins with.
RECURSIVE SpaceRun(_)
SpaceRun(s) ==
    IF s # <<>> /\ Head(s) \in Whitespace THEN 1 + SpaceRun(Tail(s)) ELSE 0

\* The line-continuation marks of cmd.exe and PowerShell: the caret and the
\* backtick (the latter written by name here).
ContinuationMarks == {"^", "backtick"}

\* re.sub() of a continuation mark, any whitespace and a newline by a space:
\* a mark and the whitespace after it up to the last newline of that
\* whitespace run are replaced by one space.
RECURSIVE SubContinuation(_)
SubContinuation(s) ==
    IF s = <<>> THEN <<>>
    ELSE LET run == SubSeq(s, 2, 1 + SpaceRun(Tail(s)))
             last == LastIndexOf(run, "\n")
         IN IF Head(s) \in ContinuationMarks /\ last > 0
            THEN <<" ">> \o SubContinuation(SubSeq(s, last + 2, Len(s)))
            ELSE <<Head(s)>> \o SubContinuation(Tail(s))

\* The text handed to shlex.split().
Normalized(curl_command_text) ==
    SubContinuation(
        Replace(Replace(Replace(curl_command_text, <<"\\", "\r", "\n">>, <<" ">>),
                        <<"\\", "\n">>, <<" ">>),
                <<"\r", "\n">>, <<"\n">>))

Quotes == {"'", "\""}

\* shlex in POSIX mode, splitting on whitespace only, without comments: the
\* lexer reading s from its i-th character on.  state is "ws" between words,
\* "word" inside one, a quote character inside quotes and "\\" after a
\* backslash, when escapedstate is the state to return to.
RECURSIVE Lex(_, _, _, _, _, _, _)
Lex(s, i, state, escapedstate, token, quoted, out) ==
    IF i > Len(s)
    THEN IF state \in Quotes \/ state = "\\" THEN Raise("ValueError")
         ELSE IF state = "word" /\ (token # <<>> \/ quoted) THEN Ok(Append(out, token))
         ELSE Ok(out)
    ELSE LET c == s[i] IN
      CASE state = "ws" ->
             IF c \in Whitespace THEN Lex(s, i + 1, "ws", escapedstate, <<>>, FALSE, out)
             ELSE IF c = "\\" THEN Lex(s, i + 1, "\\", "word", <<>>, FALSE, out)
             ELSE IF c \in Quotes THEN Lex(s, i + 1, c, escapedstate, <<>>, TRUE, out)
             ELSE Lex(s, i + 1, "word", escapedstate, <<c>>, FALSE, out)
        [] state \in Quotes ->
             IF c = state THEN Lex(s, i + 1, "word", escapedstate, token, TRUE, out)
             ELSE IF c = "\\" /\ state = "\""
             THEN Lex(s, i + 1, "\\", state, token, TRUE, out)
             ELSE Lex(s, i + 1, state, escapedstate, Append(token, c), TRUE, out)
        [] state = "\\" ->
             Lex(s, i + 1, escapedstate, escapedstate,
                 IF escapedstate \in Quotes /\ c # "\\" /\ c # escapedstate
                 THEN token \o <<"\\", c>>
                 ELSE Append(token, c),
                 quoted, out)
        [] OTHER ->
             IF c \in Whitespace
             THEN Lex(s, i + 1, "ws", escapedstate, <<>>, FALSE,
                      IF token # <<>> \/ quoted THEN Append(out, token) ELSE out)
             ELSE IF c \in Quotes THEN Lex(s, i + 1, c, escapedstate, token, TRUE, out)
             ELSE IF c = "\\" THEN Lex(s, i + 1, "\\", "word", token, quoted, out)
             ELSE Lex(s, i + 1, "word", escapedstate, Append(token, c), quoted, out)

\* shlex.split(s, posix=True): the words, or the ValueError of an unclosed
\* quote or a trailing backslash.
ShlexSplit(s) == Lex(s, 1, "ws", "word", <<>>, FALSE, <<>>)

\* No exception of shlex.split() is handled.
CaughtNothing == {}

\* The exceptions of shlex.split() that parse_curl_headers handles.
CaughtFromSplit == {"ValueError"}

CommandAlphabet == {"a", ":", "-", "H", " ", "'", "\"", "\\", "\n", "\r", "^"}

InitCommand ==
    /\ IdleSheet
    /\ IdleNavn
    /\ pc = "call"
    /\ curl_command \in TextsUpTo(CommandAlphabet, MaxCommandLen)
    /\ tokens = <<>>
    /\ idx = 0
    /\ headers = <<>>
    /\ IdleLink
    /\ IdleElapsed
    /\ IdleBuild
    /\ IdleRows

\* parse_curl_headers up to its loop: the empty text returns at once, the
\* text is normalized and split, and a failure to split returns the empty
\* mapping when it is handled and leaves the function when it is not.
ParseCall ==
    /\ pc = "call"
    /\ LET split == ShlexSplit(Normalized(curl_command)) IN
       IF curl_command = <<>> THEN pc' = "done" /\ tokens' = <<>>
       ELSE IF ~split.raised THEN pc' = "loop" /\ tokens' = split.val
       ELSE IF split.exc \in CaughtFromSplit THEN pc' = "done" /\ tokens' = <<>>
       ELSE pc' = "raised" /\ tokens' = <<>>
    /\ idx' = 0
    /\ headers' = <<>>
    /\ UNCHANGED <<curl_command, linkVars, elapsedVars, buildVars, rowVars,
                   sheetVars, navnVars>>

NextCommand == ParseCall \/ ParseStep \/ ParseReturn

SpecCommand == InitCommand /\ [][NextCommand]_vars

\* ---------------------------------------------------- _format_elapsed_time
\* round(x) of a float: to the nearest integer, a tie going to the even one.
PyRound(q) ==
    LET floor == q \div 4
        rest == q % 4
    IN IF rest < 2 THEN floor
       ELSE IF rest > 2 THEN floor + 1
       ELSE IF floor % 2 = 0 THEN floor ELSE floor + 1

\* _format_elapsed_time(seconds): "MM:SS", "" for None; round() of a string
\* raises TypeError.
FormatElapsedTime(v) ==
    IF v.t = "none" THEN Ok(<<>>)
    ELSE IF v.t # "num" THEN Raise("TypeError")
    ELSE LET total_seconds == PyRound(v.q)
             minutes == total_seconds \div 60
             remaining == total_seconds % 60
         IN Ok(Pad2(minutes) \o <<":">> \o Pad2(remaining))

InitElapsed ==
    /\ IdleSheet
    /\ IdleNavn
    /\ pc = "start"
    /\ seconds \in {None} \cup {Num(q) : q \in 0..(4 * MaxElapsedSeconds)}
                   \cup {Str(<<"8", "3">>), Str(<<"a">>)}
    /\ elapsed_text = Ok(<<>>)
    /\ IdleLink
    /\ IdleBuild
    /\ IdleCurl
    /\ IdleRows

\* One call of _format_elapsed_time(seconds).
FormatElapsedTimeCall ==
    /\ pc = "start"
    /\ elapsed_text' = FormatElapsedTime(seconds)
    /\ pc' = IF elapsed_text'.raised THEN "raised" ELSE "done"
    /\ UNCHANGED <<seconds, linkVars, buildVars, curlVars, rowVars,
                   sheetVars, navnVars>>

NextElapsed == FormatElapsedTimeCall

SpecElapsed == InitElapsed /\ [][NextElapsed]_vars

\* --------------------------------------------------- efforts_to_sheet_rows
NAVN == <<"N", "A", "V", "N">>
EffortUrlPrefix == <<"https://www.strava.com/segment_efforts/">>

\* A float: a finite count of quarters, or positive infinity.
Finite(q) == [fin |-> TRUE, q |-> q]
Infinity == [fin |-> FALSE, q |-> 0]

\* a < b of two floats.
FloatLess(a, b) == a.fin /\ (~b.fin \/ a.q < b.q)

\* int(s) of a text of digits.
RECURSIVE TextToNat(_)
TextToNat(s) ==
    IF s = <<>> THEN 0
    ELSE 10 * TextToNat(SubSeq(s, 1, Len(s) - 1))
         + (CHOOSE d \in 0..9 : DigitText[d + 1] = s[Len(s)])

\* _elapsed_seconds(value): the time as a float, infinity for None and for a
\* text float() rejects (of the texts modelled, every one that is not digits).
ElapsedSeconds(v) ==
    CASE v.t = "none" -> Infinity
      [] v.t = "num" -> Finite(v.q)
      [] v.t = "str" /\ IsDigit(v.s) -> Finite(4 * TextToNat(v.s))
      [] OTHER -> Infinity

\* Decimal.to_integral_value(ROUND_HALF_UP) of a count of quarters.
RoundHalfUp(q) == IF q >= 0 THEN (q + 2) \div 4 ELSE -((2 - q) \div 4)

\* _round_metric(value): the metric as integer text, "" for None, "" and
\* a text Decimal() rejects; int() of Decimal("NaN") raises ValueError.
RoundMetric(v) ==
    IF v.t = "none" \/ v = Str(<<>>) THEN Ok(<<>>)
    ELSE IF v.t = "num" THEN Ok(IntToText(RoundHalfUp(v.q)))
    ELSE IF IsDigit(v.s) THEN Ok(IntToText(TextToNat(v.s)))
    ELSE IF v.s = <<"N", "a", "N">> THEN Raise("ValueError")
    ELSE Ok(<<>>)

\* date_str[:4] of the first date field that is set, "" under 4 characters.
EffortYear(effort) ==
    LET date_str == PyOr(PyOr(effort.start_date_local, effort.start_date), Str(<<>>)).s
    IN IF Len(date_str) >= 4 THEN SubSeq(date_str, 1, 4) ELSE <<>>

\* str() of the nested segment id, else the flat one, else SEGMENT_ID.
EffortSegmentId(effort) ==
    LET nested == IF effort.segment.t = "dict" THEN effort.segment.id ELSE None
    IN PyStr(PyOr(PyOr(nested, effort.segment_id), Str(SEGMENT_ID)))

\* key = (segment_id_str, year)
EffortKey(effort) == <<EffortSegmentId(effort), EffortYear(effort)>>

\* One turn of the reducing loop, with a replaced key moved to the end of the
\* order (a re-inserted key).
ReduceReorders(best, ord, effort) ==
    LET key == EffortKey(effort) IN
    IF key \notin DOMAIN best
    THEN [best |-> DictSet(best, key, effort), order |-> Append(ord, key)]
    ELSE IF FloatLess(ElapsedSeconds(effort.elapsed_time),
                      ElapsedSeconds(best[key].elapsed_time))
    THEN [best |-> DictSet(best, key, effort),
          order |-> Append(SelectSeq(ord, LAMBDA k : k # key), key)]
    ELSE [best |-> best, order |-> ord]

\* One turn of the reducing loop: a new key is retained and appended to the
\* order; a known key's record is replaced by a strictly faster one.
Reduce(best, ord, effort) ==
    LET key == EffortKey(effort) IN
    IF key \notin DOMAIN best
    THEN [best |-> DictSet(best, key, effort), order |-> Append(ord, key)]
    ELSE IF FloatLess(ElapsedSeconds(effort.elapsed_time),
                      ElapsedSeconds(best[key].elapsed_time))
    THEN [best |-> DictSet(best, key, effort), order |-> ord]
    ELSE [best |-> best, order |-> ord]

\* (navn_value or "NAVN").strip() or "NAVN"
NavnColumn(navn) ==
    LET stripped == Strip(PyOr(navn, Str(NAVN)).s)
    IN IF stripped # <<>> THEN stripped ELSE NAVN

\* (segment_name_map or {}).get(segment_id_str, segment_id_str)
SegmentDisplay(name_map, segment_id_str) ==
    IF name_map.t = "dict" /\ segment_id_str \in DOMAIN name_map.d
    THEN name_map.d[segment_id_str]
    ELSE segment_id_str

\* s.split(sep)
RECURSIVE Split(_, _)
Split(s, sep) ==
    IF FirstIndexOf(s, sep) = 0 THEN <<s>>
    ELSE <<BeforeFirst(s, sep)>> \o Split(AfterFirst(s, sep), sep)

\* sep.join(fields)
RECURSIVE Join(_, _)
Join(fields, sep) ==
    IF fields = <<>> THEN <<>>
    ELSE IF Len(fields) = 1 THEN fields[1]
    ELSE fields[1] \o <<sep>> \o Join(Tail(fields), sep)

\* The row of one key: its eight columns joined by tabs, or the exception
\* that formatting the retained record raises.
SheetRow(key, effort, name_map, navn) ==
    LET elapsed == FormatElapsedTime(effort.elapsed_time)
        effort_url == IF Truthy(effort.id) THEN EffortUrlPrefix \o PyStr(effort.id) ELSE <<>>
        avg_watts == RoundMetric(
            PyOr(PyOr(PyOr(effort.average_watts, effort.avg_watts), effort.watts),
                 Str(<<>>)))
        avg_bpm == RoundMetric(
            PyOr(PyOr(PyOr(effort.average_heartrate, effort.average_hr), effort.avg_hr),
                 Str(<<>>)))
        avg_cadence == RoundMetric(
            PyOr(PyOr(effort.average_cadence, effort.avg_cadence), Str(<<>>)))
    IN IF elapsed.raised THEN elapsed
       ELSE IF avg_watts.raised THEN avg_watts
       ELSE IF avg_bpm.raised THEN avg_bpm
       ELSE IF avg_cadence.raised THEN avg_cadence
       ELSE Ok(Join(<<key[2], SegmentDisplay(name_map, key[1]), NavnColumn(navn),
                      elapsed.val, effort_url, avg_watts.val, avg_bpm.val,
                      avg_cadence.val>>, "\t"))

\* An effort record of the payload; a field it lacks reads as None.
Effort(local, start, segment, segment_id, elapsed_time, id, watts3, hr3, cadence2) ==
    [start_date_local |-> local, start_date |-> start, segment |-> segment,
     segment_id |-> segment_id, elapsed_time |-> elapsed_time, id |-> id,
     average_watts |-> watts3[1], avg_watts |-> watts3[2], watts |-> watts3[3],
     average_heartrate |-> hr3[1], average_hr |-> hr3[2], avg_hr |-> hr3[3],
     average_cadence |-> cadence2[1], avg_cadence |-> cadence2[2]]

Segment(id) == [t |-> "dict", id |-> id]
NameMap(d) == [t |-> "dict", d |-> d]

Date2024 == Str(<<"2", "0", "2", "4", "-", "0", "5">>)
Date2023 == Str(<<"2", "0", "2", "3", "-", "1", "1">>)
DateShort == Str(<<"2", "0">>)
Id123 == <<"1", "2", "3">>

\* The records the reducer is studied on.  Their dates and segments give four
\* keys: two years and a date too short to hold one, a segment id nested (over
\* a flat one) and a flat one; their time is absent, a number or not a number.
ReducerKeyFields ==
    {<<Date2024, Date2023, Segment(Whole(123)), Whole(999)>>,
     <<None, Date2023, Segment(Whole(123)), Whole(999)>>,
     <<None, Date2023, None, Whole(999)>>,
     <<DateShort, None, None, Whole(999)>>}
ReducerEfforts ==
    {Effort(k[1], k[2], k[3], k[4], e, None, <<None, None, None>>,
            <<None, None, None>>, <<None, None>>) :
        k \in ReducerKeyFields,
        e \in {None, Whole(120), Whole(150), Str(<<"a", "b", "c">>)}}

\* The effort ids of a payload are distinct: the n-th record has id n.
Numbered(seq) == [n \in 1..Len(seq) |-> [seq[n] EXCEPT !.id = Whole(n)]]

InitRows ==
    /\ IdleSheet
    /\ IdleNavn
    /\ pc = "running"
    /\ \E seq \in TextsUpTo(ReducerEfforts, MaxEfforts) : efforts = Numbered(seq)
    /\ segment_name_map = NameMap(Id123 :> <<"a", "l">>)
    /\ navn_value = Str(<<"T">>)
    /\ best_by_year = <<>>
    /\ order = <<>>
    /\ rows = <<>>
    /\ raised = ""
    /\ idx = 0
    /\ curl_command = <<>>
    /\ tokens = <<>>
    /\ headers = <<>>
    /\ IdleLink
    /\ IdleElapsed
    /\ IdleBuild

\* The records the formatter is studied on: one record, its metrics under
\* the alternate names, its date, segment, time and id set or not.
FormatterEfforts ==
    {Effort(d, None, g, None, e, i, w, h, c) :
        d \in {None, DateShort, Date2024},
        g \in {None, Segment(Whole(555))},
        e \in {None, Whole(83)},
        i \in {None, Whole(8888)},
        w \in {None, Whole(0), Whole(250), Str(<<>>)} \X {None, Num(1282)} \X {None, Whole(100)},
        h \in {None, Whole(0), Whole(152)} \X {None, Whole(150)} \X {None},
        c \in {None, Whole(0)} \X {None, Num(359), Str(<<"N", "a", "N">>)}}

Id555 == <<"5", "5", "5">>

InitFormat ==
    /\ IdleSheet
    /\ IdleNavn
    /\ pc = "running"
    /\ \E e \in FormatterEfforts : efforts = <<e>>
    /\ segment_name_map \in {None, NameMap(Id555 :> <<"s">>), NameMap(Id555 :> <<"s", "\t", "x">>)}
    /\ navn_value \in {None, Str(<<"M">>), Str(<<" ">>), Str(<<"A", "\t", "B">>)}
    /\ best_by_year = <<>>
    /\ order = <<>>
    /\ rows = <<>>
    /\ raised = ""
    /\ idx = 0
    /\ curl_command = <<>>
    /\ tokens = <<>>
    /\ headers = <<>>
    /\ IdleLink
    /\ IdleElapsed
    /\ IdleBuild

\* One turn of the loop over the efforts (idx counts the records read).
ReduceStep ==
    /\ pc = "running"
    /\ idx < Len(efforts)
    /\ LET next == Reduce(best_by_year, order, efforts[idx + 1])
       IN best_by_year' = next.best /\ order' = next.order
    /\ idx' = idx + 1
    /\ UNCHANGED <<pc, rowArgs, rows, raised, curl_command, tokens, headers, linkVars,
                   elapsedVars, buildVars,
                   sheetVars, navnVars>>

\* One turn of the loop over the keys: the row is appended, or the call ends
\* with the exception formatting raised.
FormatStep ==
    /\ pc = "running"
    /\ idx = Len(efforts)
    /\ Len(rows) < Len(order)
    /\ LET key == order[Len(rows) + 1]
           row == SheetRow(key, best_by_year[key], segment_name_map, navn_value)
       IN IF row.raised
          THEN pc' = "raised" /\ raised' = row.exc /\ rows' = rows
          ELSE pc' = "running" /\ raised' = raised /\ rows' = Append(rows, row.val)
    /\ UNCHANGED <<rowArgs, best_by_year, order, curlVars, linkVars, elapsedVars, buildVars,
                   sheetVars, navnVars>>

\* Both loops are over: efforts_to_sheet_rows returns the rows.
RowsReturn ==
    /\ pc = "running"
    /\ idx = Len(efforts)
    /\ Len(rows) = Len(order)
    /\ pc' = "done"
    /\ UNCHANGED <<rowVars, curlVars, linkVars, elapsedVars, buildVars,
                   sheetVars, navnVars>>

NextRows == ReduceStep \/ FormatStep \/ RowsReturn

SpecRows == InitRows /\ [][NextRows]_vars

SpecFormat == InitFormat /\ [][NextRows]_vars

\* ------------------------------------------------- _segment_id_from_link
\* The segment id a sheet link names, "" when it names none.
SegmentIdFromLink(l) ==
    IF l = <<>> THEN <<>>
    ELSE LET cleaned == Strip(l) IN
         IF cleaned = <<>> THEN <<>>
         ELSE LET unslashed == RStripChars(cleaned, {"/"})
                  last_part == AfterLast(unslashed, "/")
                  no_query == IF FirstIndexOf(last_part, "?") # 0
                              THEN BeforeFirst(last_part, "?")
                              ELSE last_part
                  no_fragment == IF FirstIndexOf(no_query, "#") # 0
                                 THEN BeforeFirst(no_query, "#")
                                 ELSE no_query
              IN IF IsDigit(no_fragment) THEN no_fragment ELSE <<>>

LinkAlphabet == {"/", "?", "#", "1", "2", "a", " "}

InitLink ==
    /\ IdleSheet
    /\ IdleNavn
    /\ pc = "start"
    /\ link \in TextsUpTo(LinkAlphabet, MaxLinkLen)
    /\ link_id = <<>>
    /\ IdleElapsed
    /\ IdleBuild
    /\ IdleCurl
    /\ IdleRows

\* One call of _segment_id_from_link(link).
SegmentIdFromLinkCall ==
    /\ pc = "start"
    /\ link_id' = SegmentIdFromLink(link)
    /\ pc' = "done"
    /\ UNCHANGED <<link, elapsedVars, buildVars, curlVars, rowVars,
                   sheetVars, navnVars>>

NextLink == SegmentIdFromLinkCall

SpecLink == InitLink /\ [][NextLink]_vars

\* ======================================================== the claims
\* ---------------------------------------------------- extract_segment_ids
\* The id of a metadata row: that of its Segment cell, trimmed; a row without
\* the cell, or with None in it, reads as "".
RowSegmentId(cell) == SegmentIdFromLink(Strip(PyOr(cell, Str(<<>>)).s))

\* One turn of the loop, every id appended, a repeated one too.
ExtractKeepsRepeats(ids, seen_ids, cell) ==
    LET segment_id == RowSegmentId(cell) IN
    IF segment_id # <<>>
    THEN [ids |-> Append(ids, segment_id), seen |-> seen_ids \cup {segment_id}]
    ELSE [ids |-> ids, seen |-> seen_ids]

\* One turn of extract_segment_ids' loop: a new, non-empty id is appended.
Extract(ids, seen_ids, cell) ==
    LET segment_id == RowSegmentId(cell) IN
    IF segment_id # <<>> /\ segment_id \notin seen_ids
    THEN [ids |-> Append(ids, segment_id), seen |-> seen_ids \cup {segment_id}]
    ELSE [ids |-> ids, seen |-> seen_ids]

SegmentsUrl == <<"https://www.strava.com/segments", "/">>

\* The Segment cells of the sheet: links to two segments, plain, padded, with
\* a query and with a trailing slash, and cells that name no segment.
SheetCells ==
    {None, Str(<<>>),
     Str(SegmentsUrl \o <<"1">>),
     Str(<<" ">> \o SegmentsUrl \o <<"1", "/", " ">>),
     Str(SegmentsUrl \o <<"2", "?", "f">>),
     Str(SegmentsUrl \o <<"2">>),
     Str(SegmentsUrl \o <<"a">>)}

InitExtract ==
    /\ pc = "extract"
    /\ sheet_rows \in TextsUpTo(SheetCells, MaxRows)
    /\ segment_ids = <<>>
    /\ seen = {}
    /\ idx = 0
    /\ curl_command = <<>>
    /\ tokens = <<>>
    /\ headers = <<>>
    /\ IdleNavn
    /\ IdleLink
    /\ IdleElapsed
    /\ IdleBuild
    /\ IdleRows

\* One turn of the loop over the rows (idx counts the rows read).
ExtractStep ==
    /\ pc = "extract"
    /\ idx < Len(sheet_rows)
    /\ LET next == Extract(segment_ids, seen, sheet_rows[idx + 1])
       IN segment_ids' = next.ids /\ seen' = next.seen
    /\ idx' = idx + 1
    /\ UNCHANGED <<pc, sheet_rows, curl_command, tokens, headers, linkVars, elapsedVars,
                   buildVars, rowVars, navnVars>>

\* The loop is over: extract_segment_ids returns the ids.
ExtractReturn ==
    /\ pc = "extract"
    /\ idx = Len(sheet_rows)
    /\ pc' = "done"
    /\ UNCHANGED <<sheetVars, curlVars, linkVars, elapsedVars, buildVars, rowVars, navnVars>>

NextExtract == ExtractStep \/ ExtractReturn

SpecExtract == InitExtract /\ [][NextExtract]_vars

\* ---------------------------------------------------- load_or_prompt_navn
\* A list of suggested names.
Names(l) == [t |-> "list", l |-> l]

\* _read_cached_navn(): the file's content, trimmed; "" without a file.
ReadCachedNavn(file) == IF file = None THEN <<>> ELSE Strip(file.s)

\* load_or_prompt_navn(): its outcome, the cache file after it and the text
\* input_func returned (None when it was not called).  suggested is the
\* argument, fetched what fetch_athlete_names() returns when it is None.
LoadOrPromptNavn(file, suggested, fetched, typed) ==
    LET cached == ReadCachedNavn(file)
        options == IF suggested = None THEN fetched ELSE suggested.l
        typed_navn == Strip(typed)
        selection == RStripChars(typed_navn, {"."})
        index == TextToNat(selection) - 1
        failed == [outcome |-> Raise("ValueError"), file |-> file, asked |-> Str(typed)]
        written(navn) ==
            IF navn = <<>> THEN failed
            ELSE [outcome |-> Ok(navn), file |-> Str(navn), asked |-> Str(typed)]
    IN IF cached # <<>> THEN [outcome |-> Ok(cached), file |-> file, asked |-> None]
       ELSE IF typed_navn = <<>> THEN failed
       ELSE IF options # <<>> /\ IsDigit(selection)
       THEN IF 0 <= index /\ index < Len(options) THEN written(options[index + 1])
            ELSE failed
       ELSE written(typed_navn)

\* The cache file at the start: none, an empty one, one holding a name.
CacheFiles == {None, Str(<<>>), Str(<<"K", "\n">>)}
\* What fetch_athlete_names() returns: trimmed, non-empty names.
FetchedNames == {<<>>, << <<"O">>, <<"K">> >>}
\* The suggested_names argument: None, or any list of texts.
SuggestedNames ==
    {None, Names(<<>>), Names(<< <<"O">> >>), Names(<< <<"O">>, <<"K">> >>),
     Names(<< <<" ">> >>), Names(<< <<" ", "O">> >>)}
\* What the user types at the prompt.
TypedTexts ==
    {<<>>, <<" ">>, <<"1">>, <<"2", ".">>, <<"3">>, <<"0">>, <<" ", "P">>}

InitNavn ==
    /\ pc = "idle"
    /\ cache_file \in CacheFiles
    /\ calls = 0
    /\ suggested_names = None
    /\ navn_input = None
    /\ navn_result = None
    /\ IdleSheet
    /\ IdleLink
    /\ IdleElapsed
    /\ IdleBuild
    /\ IdleCurl
    /\ IdleRows

\* One call of load_or_prompt_navn() on the cache file.
LoadOrPromptNavnCall ==
    /\ calls < MaxCalls
    /\ \E suggested \in SuggestedNames, fetched \in FetchedNames, typed \in TypedTexts :
          LET call == LoadOrPromptNavn(cache_file, suggested, fetched, typed) IN
          /\ suggested_names' = suggested
          /\ navn_input' = call.asked
          /\ navn_result' = call.outcome
          /\ cache_file' = call.file
    /\ calls' = calls + 1
    /\ UNCHANGED <<pc, linkVars, elapsedVars, buildVars, curlVars, rowVars, sheetVars>>

NextNavn == LoadOrPromptNavnCall

SpecNavn == InitNavn /\ [][NextNavn]_vars

\* ---------------------------------------------- claims on _build_headers
\* A tier of a credential is blank when it is absent or only whitespace.
Blank(v) == v.t = "none" \/ Strip(v.s) = <<>>

\* The tiers of the three headers, highest first.  _build_headers takes no
\* explicit user agent: that header's tiers start at the environment.
CookieTiers ==
    <<cookie_header, environ["STRAVA_COOKIE_HEADER"], DictGet(curl_headers, CookieKey)>>
CsrfTiers ==
    <<csrf_token, environ["STRAVA_CSRF_TOKEN"], DictGet(curl_headers, CsrfKey)>>
UserAgentTiers ==
    <<environ["STRAVA_USER_AGENT"], DictGet(curl_headers, UserAgentKey),
      Str(DEFAULT_USER_AGENT)>>

Unresolved(tiers) == \A i \in 1..Len(tiers) : Blank(tiers[i])

\* The highest non-blank tier is the result.
WinsByPrecedence(tiers, result) ==
    \A i \in 1..Len(tiers) :
        (~Blank(tiers[i]) /\ \A j \in 1..(i - 1) : Blank(tiers[j]))
            => result = Strip(tiers[i].s)

\* C3: in the header set _build_headers returns, the cookie, the CSRF token and
\* the user agent are each the highest non-blank tier (explicit argument, then
\* environment, then pasted command, then for the user agent the default).
C3_StrictPrecedence ==
    pc = "done" =>
        /\ WinsByPrecedence(CookieTiers, http_headers.val.Cookie)
        /\ WinsByPrecedence(CsrfTiers, http_headers.val.XCSRFToken)
        /\ WinsByPrecedence(UserAgentTiers, http_headers.val.UserAgent)

\* C3's case: a blank explicit cookie falls to the environment although the
\* pasted command has one, a padded explicit token wins over both lower tiers,
\* and the user agent comes from the pasted command.
C3_Witness ==
    /\ pc = "done"
    /\ cookie_header = Str(<<" ">>)
    /\ environ["STRAVA_COOKIE_HEADER"] = Str(<<"e", " ">>)
    /\ DictGet(curl_headers, CookieKey) = Str(<<"c">>)
    /\ http_headers.val.Cookie = <<"e">>
    /\ csrf_token = Str(<<" ", "x", " ">>)
    /\ environ["STRAVA_CSRF_TOKEN"] = Str(<<"e">>)
    /\ http_headers.val.XCSRFToken = <<"x">>
    /\ Blank(environ["STRAVA_USER_AGENT"])
    /\ http_headers.val.UserAgent = <<"c">>

\* C4 as stated: a cookie no tier resolves raises the cookie error, and a CSRF
\* token no tier resolves raises the CSRF error, each whatever the other is.
C4_EachReportedIndependently ==
    pc \in {"done", "raised"} =>
        /\ Unresolved(CookieTiers) =>
               http_headers = Raise("A Cookie header is required")
        /\ Unresolved(CsrfTiers) =>
               http_headers = Raise("A CSRF token is required")

\* C4 amended: an unresolved cookie raises the cookie error; an unresolved CSRF
\* token raises the CSRF error when the cookie is resolved (with both missing
\* the cookie error alone is raised); a raising call returns no header set.
C4_MissingCredentialRaises ==
    pc \in {"done", "raised"} =>
        /\ Unresolved(CookieTiers) =>
               http_headers = Raise("A Cookie header is required")
        /\ (Unresolved(CsrfTiers) /\ ~Unresolved(CookieTiers)) =>
               http_headers = Raise("A CSRF token is required")
        /\ http_headers.raised => pc = "raised"

\* C4's case: the cookie comes from the pasted command, the CSRF token from
\* nowhere, and the call has raised the CSRF error.
C4_Witness ==
    /\ pc = "raised"
    /\ Blank(cookie_header)
    /\ Blank(environ["STRAVA_COOKIE_HEADER"])
    /\ DictGet(curl_headers, CookieKey) = Str(<<"c">>)
    /\ Unresolved(CsrfTiers)
    /\ http_headers = Raise("A CSRF token is required")

\* ---------------------------------------- claims on _format_elapsed_time
\* Half-up rounding of a non-negative count of quarters to whole seconds.
HalfUpSeconds(q) == (q + 2) \div 4

\* C6: _format_elapsed_time renders the seconds rounded half-up (a .5 always
\* up) as zero-padded MM:SS, and an absent time as the empty text.
C6_ElapsedHalfUp ==
    (pc = "done" /\ seconds.t \in {"none", "num"}) =>
        elapsed_text.val =
            IF seconds.t = "none" THEN <<>>
            ELSE Pad2(HalfUpSeconds(seconds.q) \div 60) \o <<":">>
                 \o Pad2(HalfUpSeconds(seconds.q) % 60)

\* --------------------------------------- claims on _segment_id_from_link
\* The id C8 describes: the query string and the fragment go first, then the
\* trailing slashes; the last path segment is the id if it is numeric.
StatedSegmentId(l) ==
    LET cleaned == Strip(l)
        no_query == BeforeFirst(cleaned, "?")
        no_fragment == BeforeFirst(no_query, "#")
        last_part == AfterLast(RStripChars(no_fragment, {"/"}), "/")
    IN IF IsDigit(last_part) THEN last_part ELSE <<>>

\* C8: _segment_id_from_link returns the last non-empty path segment of the
\* link with trailing slash, query string and fragment stripped, if it is
\* numeric, and the empty text otherwise, for every link shape.
C8_QueryAndFragmentStrippedFirst ==
    pc = "done" => link_id = StatedSegmentId(link)

\* ------------------------------------------ claims on parse_curl_headers
\* C5: every entry of the mapping parse_curl_headers returns has a non-empty
\* name and a non-empty value: a header flag whose value part is empty stores
\* and overwrites nothing.
C5_NoEmptyHeaderStored ==
    pc = "done" => \A k \in DOMAIN headers : k # <<>> /\ headers[k] # <<>>

\* The four spellings of a header flag, and the words that carry the header
\* text v in each of them.
Spellings == {"short", "short-joined", "long", "long-joined"}
Spelled(sp, v) ==
    CASE sp = "short" -> <<FlagH, v>>
      [] sp = "short-joined" -> <<FlagH \o v>>
      [] sp = "long" -> <<FlagHeader, v>>
      [] sp = "long-joined" -> <<FlagHeaderEq \o v>>

\* The command line toks (from its n-th word on) with every header it gives
\* respelled as sp. A flag with a separate value takes the next word, whatever
\* that word looks like; a flag that lacks its value is left as it stands.
RECURSIVE RespellFrom(_, _, _)
RespellFrom(toks, n, sp) ==
    IF n > Len(toks) THEN <<>>
    ELSE LET t == toks[n] IN
      IF t = FlagH \/ Lower(t) = FlagHeader
      THEN IF n < Len(toks)
           THEN Spelled(sp, toks[n + 1]) \o RespellFrom(toks, n + 2, sp)
           ELSE <<t>>
      ELSE IF StartsWith(Lower(t), FlagHeaderEq) /\ Len(t) > Len(FlagHeaderEq)
      THEN Spelled(sp, SubSeq(t, Len(FlagHeaderEq) + 1, Len(t)))
               \o RespellFrom(toks, n + 1, sp)
      ELSE IF StartsWith(t, FlagH) /\ Len(t) > Len(FlagH)
      THEN Spelled(sp, SubSeq(t, Len(FlagH) + 1, Len(t)))
               \o RespellFrom(toks, n + 1, sp)
      ELSE IF t = FlagB \/ Lower(t) = FlagCookie
      THEN IF n < Len(toks)
           THEN <<t, toks[n + 1]>> \o RespellFrom(toks, n + 2, sp)
           ELSE <<t>>
      ELSE <<t>> \o RespellFrom(toks, n + 1, sp)

\* The header texts with a name and a value, and the entry each should give.
WellFormed == {v \in FlagHeaderTexts :
                  /\ FirstIndexOf(v, ":") > 0
                  /\ Strip(BeforeFirst(v, ":")) # <<>>
                  /\ Strip(AfterFirst(v, ":")) # <<>>}
EntryOf(v) ==
    DictSet(<<>>, Lower(Strip(BeforeFirst(v, ":"))), Strip(AfterFirst(v, ":")))

\* C11: the mapping parse_curl_headers returns for a command line is the one
\* it returns for the same command line with every header respelled in any
\* one of the four flag spellings, so the spellings are interchangeable also
\* when mixed; and a lone header with a name and a value gives the entry
\* (lower-cased name, trimmed value) in each spelling.
C11_SpellingsInterchangeable ==
    pc = "done" =>
        /\ \A sp \in Spellings :
               ParseFrom(RespellFrom(tokens, 1, sp), 0, <<>>) = headers
        /\ \A sp \in Spellings, v \in WellFormed :
               tokens = Spelled(sp, v) => headers = EntryOf(v)

\* C11's case: a command line mixing the short joined and the long joined
\* spelling has been parsed, and the later header has replaced the earlier.
C11_Witness ==
    /\ pc = "done"
    /\ tokens = <<FlagH \o <<"X", ":", "a">>,
                  FlagHeaderEq \o <<" ", "x", " ", ":", "b">>>>
    /\ headers = DictSet(<<>>, <<"x">>, <<"b">>)

\* The cookie text the word at index i (0-based) carries when it is one of the
\* cookie flags -b, --cookie (the next word) and --cookie= (the rest of the
\* word); "" when it is none of them or lacks its value.
CookieCarried(toks, i) ==
    LET t == toks[i + 1] IN
    IF t = FlagB \/ t = FlagCookie
    THEN IF i + 1 < Len(toks) THEN toks[i + 2] ELSE <<>>
    ELSE IF StartsWith(t, FlagCookieEq)
    THEN SubSeq(t, Len(FlagCookieEq) + 1, Len(t))
    ELSE <<>>

\* C12: a turn of the loop at a cookie flag whose (trimmed, non-empty) value
\* begins with "@" leaves the mapping exactly as it was; at a cookie flag with
\* any other value it stores the value under the key cookie and changes
\* nothing else.
C12_CookieFlagFrame ==
    [][(pc = "loop" /\ idx < Len(tokens)) =>
          LET c == Strip(CookieCarried(tokens, idx)) IN
          IF c = <<>> THEN TRUE
          ELSE IF c[1] = "@" THEN headers' = headers
          ELSE headers' = DictSet(headers, CookieKey, c)]_vars

\* C12's case: a cookie flag has stored a cookie and a later cookie flag
\* naming a file ("@f") has been read, the stored cookie still in place.
C12_Witness ==
    /\ pc = "done"
    /\ tokens = <<FlagB, <<"k">>, FlagCookieEq \o <<"@", "f">>>>
    /\ headers = DictSet(<<>>, CookieKey, <<"k">>)

\* C13: parse_curl_headers never leaves by an exception, and it returns the
\* empty mapping for the empty text, for a text that shlex cannot split (an
\* unclosed quote, a trailing backslash) and for a text without any flag.
C13_NeverRaises ==
    /\ pc # "raised"
    /\ pc = "done" =>
          /\ curl_command = <<>> => headers = <<>>
          /\ ShlexSplit(Normalized(curl_command)).raised => headers = <<>>
          /\ (\A i \in 1..Len(curl_command) : curl_command[i] # "-") => headers = <<>>

\* C13's case: a pasted header flag whose quote is never closed has been
\* parsed, and the empty mapping returned.
C13_Witness ==
    /\ pc = "done"
    /\ curl_command = <<"-", "H", "'", "a">>
    /\ ShlexSplit(Normalized(curl_command)) = Raise("ValueError")
    /\ headers = <<>>

\* --------------------------------------- claims on efforts_to_sheet_rows
\* The keys of the records passed, and where each first occurs.
RowKeys == {EffortKey(efforts[n]) : n \in 1..Len(efforts)}
RecordsOf(k) == {n \in 1..Len(efforts) : EffortKey(efforts[n]) = k}
FirstIndex(k) == CHOOSE n \in RecordsOf(k) : \A m \in RecordsOf(k) : n <= m
Elapsed(n) == ElapsedSeconds(efforts[n].elapsed_time)

\* The record of key k with the smallest time, the first of those that tie.
Fastest(k) ==
    CHOOSE n \in RecordsOf(k) :
        \A m \in RecordsOf(k) :
            ~FloatLess(Elapsed(m), Elapsed(n))
            /\ (~FloatLess(Elapsed(n), Elapsed(m)) => n <= m)

\* The row's first two columns are those of key k.
RowIsOf(row, k) ==
    /\ Split(row, "\t")[1] = k[2]
    /\ Split(row, "\t")[2] = SegmentDisplay(segment_name_map, k[1])

Ended == pc \in {"done", "raised"}

\* C1: for every input, efforts_to_sheet_rows emits exactly one row per
\* (segment id, year) key, built from the key's record with the smallest
\* elapsed time (absent or unparseable counting as infinity), the first seen
\* of those that tie.
C1_OneFastestRowPerKey ==
    Ended =>
        /\ pc = "done"
        /\ Len(rows) = Cardinality(RowKeys)
        /\ \A k \in RowKeys :
               \E n \in 1..Len(rows) :
                   /\ RowIsOf(rows[n], k)
                   /\ Split(rows[n], "\t")[5]
                          = EffortUrlPrefix \o PyStr(efforts[Fastest(k)].id)

\* C2: a malformed or missing elapsed time or date never makes
\* efforts_to_sheet_rows raise: the call returns, with a row for every key.
C2_MalformedFieldNeverRaises ==
    Ended =>
        /\ raised = ""
        /\ \A k \in RowKeys : \E n \in 1..Len(rows) : RowIsOf(rows[n], k)

\* The value C7 describes: the first alternate that is present and not empty,
\* the number 0 included.
FirstPresent(values) ==
    IF \E i \in 1..Len(values) : values[i] \notin {None, Str(<<>>)}
    THEN values[CHOOSE i \in 1..Len(values) :
                    /\ values[i] \notin {None, Str(<<>>)}
                    /\ \A j \in 1..(i - 1) : values[j] \in {None, Str(<<>>)}]
    ELSE None

\* The n-th column of a row counted from its end (0: the last).
ColumnFromEnd(row, n) == Split(row, "\t")[Len(Split(row, "\t")) - n]

\* C7: each metric column holds the first alternate field that is present
\* and non-empty, so that a value under an earlier name, 0 included, is never
\* replaced by the value under a later name.
C7_FirstPresentAlternateWins ==
    pc = "done" =>
        LET e == efforts[1] IN
        /\ ColumnFromEnd(rows[1], 2)
               = RoundMetric(FirstPresent(<<e.average_watts, e.avg_watts, e.watts>>)).val
        /\ ColumnFromEnd(rows[1], 1)
               = RoundMetric(FirstPresent(
                     <<e.average_heartrate, e.average_hr, e.avg_hr>>)).val
        /\ ColumnFromEnd(rows[1], 0)
               = RoundMetric(FirstPresent(<<e.average_cadence, e.avg_cadence>>)).val

\* The value the code hands to the metric formatter: the first alternate
\* that is true, "" when none is.
Handed(values) ==
    IF values = <<>> THEN Str(<<>>)
    ELSE IF Truthy(values[1]) THEN values[1]
    ELSE IF Len(values) = 1 THEN Str(<<>>)
    ELSE IF Truthy(values[2]) THEN values[2]
    ELSE IF Len(values) = 2 THEN Str(<<>>)
    ELSE PyOr(values[3], Str(<<>>))

\* The text C14 describes for a metric value: a number (or the text of one)
\* rounded to the nearest integer, a tie going away from zero; "" for a value
\* that is missing or is not a number.
StatedMetric(v) ==
    IF v.t = "num"
    THEN LET magnitude == IF v.q < 0 THEN -v.q ELSE v.q
             rounded == (magnitude + 2) \div 4
         IN IntToText(IF v.q < 0 THEN -rounded ELSE rounded)
    ELSE IF v.t = "str" /\ IsDigit(v.s) THEN IntToText(TextToNat(v.s))
    ELSE <<>>

\* C14: the call returns, and each metric column of the row is the value
\* handed to the metric formatter rounded half-up to an integer text, or ""
\* when that value is missing or unparseable.
C14_MetricHalfUpOrEmpty ==
    Ended =>
        /\ pc = "done"
        /\ LET e == efforts[1] IN
           /\ ColumnFromEnd(rows[1], 2)
                  = StatedMetric(Handed(<<e.average_watts, e.avg_watts, e.watts>>))
           /\ ColumnFromEnd(rows[1], 1)
                  = StatedMetric(Handed(<<e.average_heartrate, e.average_hr, e.avg_hr>>))
           /\ ColumnFromEnd(rows[1], 0)
                  = StatedMetric(Handed(<<e.average_cadence, e.avg_cadence>>))

\* C9: every row returned splits on the tab character into exactly 8 columns,
\* for every effort record, segment-name mapping and athlete name.
C9_EightColumns ==
    pc = "done" => \A n \in 1..Len(rows) : Len(Split(rows[n], "\t")) = 8

\* C10: the rows returned are in the order in which their keys first occur in
\* the input: the n-th row is the row of the key with n - 1 keys before it.
C10_DiscoveryOrder ==
    pc = "done" =>
        \A n \in 1..Len(rows) :
            \E k \in RowKeys :
                /\ RowIsOf(rows[n], k)
                /\ Cardinality({j \in RowKeys : FirstIndex(j) < FirstIndex(k)}) = n - 1

\* C10's case: the first key's record (no time) is replaced by the third
\* record (150 s), the second record is of another key and faster (120 s);
\* the replaced key's row still comes first.
C10_Witness ==
    /\ pc = "done"
    /\ Len(efforts) = 3
    /\ EffortKey(efforts[1]) = EffortKey(efforts[3])
    /\ EffortKey(efforts[1]) # EffortKey(efforts[2])
    /\ efforts[1].elapsed_time = None
    /\ efforts[2].elapsed_time = Whole(120)
    /\ efforts[3].elapsed_time = Whole(150)
    /\ Len(rows) = 2
    /\ Split(rows[1], "\t")[5] = EffortUrlPrefix \o <<"3">>
    /\ Split(rows[2], "\t")[5] = EffortUrlPrefix \o <<"2">>

\* --------------------------------------- claims on extract_segment_ids
\* The rows that name the segment id, and the first of them.
RowsNaming(id) == {n \in 1..Len(sheet_rows) : RowSegmentId(sheet_rows[n]) = id}
FirstRowNaming(id) == CHOOSE n \in RowsNaming(id) : \A m \in RowsNaming(id) : n <= m

\* C15: the list extract_segment_ids returns holds no id twice, holds only
\* ids that a row names, holds every id that a row names, and holds them in
\* the order of the first rows naming them.
C15_DistinctIdsInFirstAppearanceOrder ==
    pc = "done" =>
        /\ \A m, n \in 1..Len(segment_ids) : m # n => segment_ids[m] # segment_ids[n]
        /\ \A m \in 1..Len(segment_ids) :
               segment_ids[m] # <<>> /\ RowsNaming(segment_ids[m]) # {}
        /\ \A n \in 1..Len(sheet_rows) :
               RowSegmentId(sheet_rows[n]) # <<>> =>
                   \E m \in 1..Len(segment_ids) : segment_ids[m] = RowSegmentId(sheet_rows[n])
        /\ \A m, n \in 1..Len(segment_ids) :
               m < n => FirstRowNaming(segment_ids[m]) < FirstRowNaming(segment_ids[n])

\* C15's case: segment 2 comes first, segment 1 second, segment 2 again and a
\* row that names no segment; the ids returned are 2 and 1.
C15_Witness ==
    /\ pc = "done"
    /\ sheet_rows = <<Str(SegmentsUrl \o <<"2", "?", "f">>), Str(SegmentsUrl \o <<"1">>),
                      Str(SegmentsUrl \o <<"2">>), Str(SegmentsUrl \o <<"a">>)>>
    /\ segment_ids = << <<"2">>, <<"1">> >>

====
